---- MODULE Spec2Model ----
(***************************************************************************)
(* Model of the Lesson Learnt API (src/main.py): the paginated record      *)
(* aggregation of fetch_all_records, the text helpers preprocess_query and *)
(* clean_html, and the /records and /search handlers.                      *)
(*                                                                         *)
(* Python text is modelled as a sequence of one-character strings, so that *)
(* lowercasing, tokenizing, tag removal and substring tests are computed.  *)
(* A decoded JSON value is a record [t, v]: t is the Python type and v the *)
(* payload (a character sequence, an integer, a sequence of values, or a   *)
(* function from keys to values).                                          *)
(***************************************************************************)
EXTENDS Integers, Sequences, FiniteSets, TLC

VARIABLES
    pc,             \* per call: "idle", "fetching", "fetched" or "done"
    endpoint,       \* per call: the handler that serves the request
    query,          \* per call: the query text of a search
    keywords,       \* per call: preprocess_query(query)
    page,           \* per call: local `page` of fetch_all_records
    total_pages,    \* per call: local `total_pages` (a JSON value)
    all_results,    \* per call: local `all_results`
    results,        \* per call: local `results` of the last iteration
    response,       \* per call: the upstream's answer to the last page request
    requested,      \* per call: the page numbers requested so far, in order
    fetched_pages,  \* per call: the record lists of the pages processed to completion, as received
    fetch_exc,      \* per call: the exception that left fetch_all_records, or "none"
    outcome,        \* per call: the HTTP outcome of the handler
    raw_text,       \* argument of clean_html
    once,           \* clean_html(raw_text)
    twice,          \* clean_html(clean_html(raw_text))
    clean_pc        \* "input", "once" or "twice"

vars == <<pc, endpoint, query, keywords, page, total_pages, all_results, results,
          response, requested, fetched_pages, fetch_exc, outcome,
          raw_text, once, twice, clean_pc>>

callVars == <<pc, endpoint, query, keywords, page, total_pages, all_results, results,
              response, requested, fetched_pages, fetch_exc, outcome>>

cleanVars == <<raw_text, once, twice, clean_pc>>

----------------------------------------------------------------------------
(* Bounds *)

\* largest page count the upstream reports
MaxTotal == 3

\* longest text handed to clean_html in SpecClean
MaxLen == 4

\* longest query handed to preprocess_query in SpecTokens
MaxQueryLen == 7

----------------------------------------------------------------------------
(* JSON values *)

JStr(s) == [t |-> "str", v |-> s]
JInt(n) == [t |-> "int", v |-> n]
JNull == [t |-> "null", v |-> 0]
JList(s) == [t |-> "list", v |-> s]
JDict(f) == [t |-> "dict", v |-> f]

\* Python truthiness of a decoded value (the operand of `or` and `not`)
Truthy(x) ==
    CASE x.t = "null" -> FALSE
      [] x.t = "int"  -> x.v # 0
      [] x.t = "str"  -> Len(x.v) > 0
      [] x.t = "list" -> Len(x.v) > 0
      [] x.t = "dict" -> DOMAIN x.v # {}

\* d.get(key, default) on a dict payload
Get(d, key, default) == IF key \in DOMAIN d THEN d[key] ELSE default

\* d.get(key): None when the key is absent
GetOrNone(d, key) == Get(d, key, JNull)

\* a or b
Or(a, b) == IF Truthy(a) THEN a ELSE b

----------------------------------------------------------------------------
(* Text *)

UpperCase == <<"A", "B", "C", "D", "E", "F", "G", "H", "I", "J", "K", "L", "M",
               "N", "O", "P", "Q", "R", "S", "T", "U", "V", "W", "X", "Y", "Z">>

LowerCase == <<"a", "b", "c", "d", "e", "f", "g", "h", "i", "j", "k", "l", "m",
               "n", "o", "p", "q", "r", "s", "t", "u", "v", "w", "x", "y", "z">>

Digits == <<"0", "1", "2", "3", "4", "5", "6", "7", "8", "9">>

Range(s) == {s[i] : i \in DOMAIN s}

LowerChar(c) ==
    IF \E i \in DOMAIN UpperCase : UpperCase[i] = c
    THEN LowerCase[CHOOSE i \in DOMAIN UpperCase : UpperCase[i] = c]
    ELSE c

\* str.lower()
lower(s) == [i \in DOMAIN s |-> LowerChar(s[i])]

\* the characters matched by \w
WordChars == Range(UpperCase) \cup Range(LowerCase) \cup Range(Digits) \cup {"_"}

\* the characters removed by str.strip()
Whitespace == {" ", "\n", "\t", "\r"}

\* k in text, for two strings
IsSubstring(k, text) ==
    \E i \in 0..(Len(text) - Len(k)) : \A j \in 1..Len(k) : text[i + j] = k[j]

\* str.strip()
strip(s) ==
    LET keep == {i \in DOMAIN s : s[i] \notin Whitespace}
    IN  IF keep = {} THEN <<>>
        ELSE LET lo == CHOOSE i \in keep : \A j \in keep : i <= j
                 hi == CHOOSE i \in keep : \A j \in keep : j <= i
             IN  SubSeq(s, lo, hi)

\* the end of the match of <.*?> that starts at position i, or 0 when there is
\* none: the first ">" after i, reached without crossing a newline
TagEnd(s, i) ==
    LET closers == {j \in (i + 1)..Len(s) : s[j] = ">"}
    IN  IF s[i] # "<" \/ closers = {} THEN 0
        ELSE LET j == CHOOSE k \in closers : \A m \in closers : k <= m
             IN  IF \E m \in (i + 1)..(j - 1) : s[m] = "\n" THEN 0 ELSE j

RECURSIVE SubTags(_, _)
\* re.sub(r"<.*?>", "", s), scanning from position i
SubTags(s, i) ==
    IF i > Len(s) THEN <<>>
    ELSE IF TagEnd(s, i) # 0 THEN SubTags(s, TagEnd(s, i) + 1)
    ELSE <<s[i]>> \o SubTags(s, i + 1)

\* the tag removal applied after the trim instead of before it
clean_html_strip_first(raw_text_) ==
    IF raw_text_.t # "str" THEN raw_text_
    ELSE JStr(SubTags(strip(raw_text_.v), 1))

clean_html(raw_text_) ==
    IF raw_text_.t # "str" THEN raw_text_
    ELSE JStr(strip(SubTags(raw_text_.v, 1)))

stopwords == <<
    <<"s", "h", "o", "w">>,
    <<"m", "e">>,
    <<"a", "l", "l">>,
    <<"t", "h", "e">>,
    <<"l", "e", "s", "s", "o", "n", "s">>,
    <<"l", "e", "a", "r", "n", "t">>,
    <<"a", "b", "o", "u", "t">>,
    <<"i", "n">>,
    <<"f", "o", "r">>,
    <<"m", "i", "t", "i", "g", "a", "n", "t">>,
    <<"m", "i", "t", "i", "g", "a", "n", "t", "s">>,
    <<"r", "i", "s", "k">>,
    <<"i", "s", "s", "u", "e", "s">>,
    <<"r", "e", "c", "o", "r", "d">>,
    <<"r", "e", "c", "o", "r", "d", "s">>,
    <<"l", "e", "s", "s", "o", "n">>,
    <<"p", "l", "e", "a", "s", "e">>,
    <<"c", "a", "n">>,
    <<"y", "o", "u">>,
    <<"d", "i", "s", "p", "l", "a", "y">>,
    <<"c", "l", "i", "e", "n", "t">>,
    <<"s", "e", "c", "t", "o", "r">>,
    <<"c", "o", "u", "n", "t", "e", "r", "-", "p", "a", "r", "t", "y">>,
    <<"c", "o", "u", "n", "t", "e", "r">>,
    <<"p", "a", "r", "t", "y">> >>

RECURSIVE FindAllWords(_, _, _)
\* re.findall(r'\w+', s): the maximal runs of word characters of s from
\* position i on, cur being the run in progress
FindAllWords(s, i, cur) ==
    IF i > Len(s) THEN (IF cur = <<>> THEN <<>> ELSE <<cur>>)
    ELSE IF s[i] \in WordChars THEN FindAllWords(s, i + 1, Append(cur, s[i]))
    ELSE (IF cur = <<>> THEN <<>> ELSE <<cur>>) \o FindAllWords(s, i + 1, <<>>)

\* the filter that asks for more than 3 characters
KeepWordLonger(w) == w \notin Range(stopwords) /\ Len(w) > 3

\* the filter of the list comprehension of preprocess_query
KeepWord(w) == w \notin Range(stopwords) /\ Len(w) > 2

preprocess_query(query_) ==
    SelectSeq(FindAllWords(lower(query_), 1, <<>>), KeepWord)

----------------------------------------------------------------------------
(* The upstream: what one GET of {BASE_URL}{RECORDS_ENDPOINT}?page=n yields *)

CleanFields == {"title", "details", "lessonLearnt", "typeDescription"}

rEnergy == JDict([title |-> JStr(<<"E", "n", "e", "r", "g", "y", " ", "p", "r", "o", "j", "e", "c", "t", " ", "A">>)])

rWater == JDict([title |-> JStr(<<"W", "a", "t", "e", "r", " ", "p", "r", "o", "j", "e", "c", "t", " ", "B">>)])

rHtml == JDict([
    id |-> JInt(7),
    reference |-> JStr(<<" ", "<", "A", "1", ">", " ", "r", "e", "f">>),
    title |-> JStr(<<"<", "b", ">", "M", "a", "r", "k", "e", "t", "<", "/", "b", ">", " ", "r", "i", "s", "k", " ">>),
    details |-> JInt(12),
    lessonLearnt |-> JStr(<<" ", " ", "<", "p", ">", "H", "e", "d", "g", "e", "\n", "<", "/", "p", ">", "F", "X">>),
    consultantTransaction |-> JDict([
        transactionName |-> JStr(<<"<", "i", ">", "T", "1">>),
        sector |-> JStr(<<"C", "l", "e", "a", "n", " ", "E", "n", "e", "r", "g", "y">>)])])

rNullTransaction == JDict([
    typeDescription |-> JNull,
    details |-> JStr(<<"W", "a", "t", "e", "r", " ", "a", "n", "d", " ", "p", "o", "w", "e", "r">>),
    consultantTransaction |-> JNull])

\* a record with none of the fields that cleaning and matching look at
rBare == JDict([id |-> JInt(9)])

\* the record lists a page can carry; the last one holds an element that is
\* not a mapping
TwoRecords == <<rEnergy, rWater>>

RecordLists == {<<>>, TwoRecords, <<rHtml, rBare>>, <<rNullTransaction>>, <<rEnergy, JInt(5)>>}

Absent == [t |-> "absent", v |-> 0]

\* the page counts a body can carry: none, null, a string, or 0..MaxTotal
PageCounts == {Absent, JNull, JStr(<<"3">>)} \cup {JInt(n) : n \in 0..MaxTotal}

\* the mapping {key: value}, or the empty mapping when the value is absent
Entry(key, value) == IF value = Absent THEN <<>> ELSE key :> value

\* {"data": {key: recs, countKey: count}}
DataKeyed(key, recs, countKey, count) ==
    JDict("data" :> JDict(Entry(key, recs) @@ Entry(countKey, count)))

\* {key: recs, "totalPages": count}
TopKeyed(key, recs, count) == JDict(Entry(key, recs) @@ Entry("totalPages", count))

Bodies ==
    {DataKeyed("result", JList(recs), "totalPages", count) :
        recs \in RecordLists, count \in PageCounts}
    \cup {DataKeyed(key, JList(TwoRecords), "total_pages", count) :
        key \in {"results", "items"}, count \in {Absent, JInt(MaxTotal)}}
    \cup {TopKeyed("results", JList(recs), count) :
        recs \in {<<>>, TwoRecords}, count \in {Absent, JNull, JInt(2)}}
    \cup {TopKeyed("items", JList(TwoRecords), count) : count \in {Absent, JInt(2)}}
    \cup {TopKeyed("data", JList(recs), count) :
        recs \in {<<>>, TwoRecords}, count \in {Absent, JInt(2)}}
    \cup {JList(recs) : recs \in {<<>>, TwoRecords}}
    \cup {JDict("data" :> JInt(5)), DataKeyed("result", JInt(5), "totalPages", Absent), JNull}

\* fault: "timeout" and "connection" leave no response; "undecodable" is a
\* response whose body response.json() cannot decode
Responses ==
    {[status |-> 200, fault |-> "none", body |-> b] : b \in Bodies}
    \cup {[status |-> 0, fault |-> f, body |-> JNull] : f \in {"timeout", "connection"}}
    \cup {[status |-> 200, fault |-> "undecodable", body |-> JNull]}
    \cup {[status |-> s, fault |-> "none", body |-> JNull] : s \in {401, 404, 500}}

NoResponse == [status |-> 0, fault |-> "unsent", body |-> JNull]

----------------------------------------------------------------------------
(* fetch_all_records *)

\* requests.get raises (timeout=20 expired, or the connection failed)
RequestRaises(resp) == resp.fault \in {"timeout", "connection"}

\* response.status_code == 401
IsUnauthorized(resp) == resp.status = 401

\* response.raise_for_status() raises for a 4xx or 5xx status
RaiseForStatusRaises(resp) == resp.status >= 400

\* response.json() raises
JsonRaises(resp) == resp.fault = "undecodable"

\* list(data.keys()) raises when the decoded body is not a dict
KeysRaises(data) == data.t # "dict"

\* an exception is raised in the try block before the shape is interpreted
RaisesBeforeShape(resp) ==
    \/ RequestRaises(resp)
    \/ IsUnauthorized(resp)
    \/ RaiseForStatusRaises(resp)
    \/ JsonRaises(resp)
    \/ KeysRaises(resp.body)

\* the value bound to `results` by the shape interpretation
ExtractResults(data) ==
    IF data.t = "dict"
    THEN IF "data" \in DOMAIN data.v
         THEN LET inner == data.v["data"]
              IN  IF inner.t = "dict"
                  THEN Or(Or(Or(GetOrNone(inner.v, "result"), GetOrNone(inner.v, "results")),
                             GetOrNone(inner.v, "items")), JList(<<>>))
                  ELSE IF inner.t = "list" THEN inner
                  ELSE JList(<<>>)
         ELSE Or(Get(data.v, "results", JList(<<>>)), JList(<<>>))
    ELSE JList(<<>>)

\* the value bound to `total_pages` by the shape interpretation, prev being
\* its value before
ExtractTotalPages(data, prev) ==
    IF data.t = "dict"
    THEN IF "data" \in DOMAIN data.v
         THEN LET inner == data.v["data"]
              IN  IF inner.t = "dict"
                  THEN Or(Or(GetOrNone(inner.v, "totalPages"), GetOrNone(inner.v, "total_pages")),
                          JInt(1))
                  ELSE IF inner.t = "list" THEN JInt(1)
                  ELSE prev
         ELSE Get(data.v, "totalPages", JInt(1))
    ELSE prev

\* the check that never stops the loop
NoResultsNever(results_) == FALSE

\* `if not results`
NoResults(results_) == ~Truthy(results_)

\* the cleaning loop raises: `for r in results` on an integer, or `field in r`
\* on a record that is an integer or null (the bodies of the upstream carry
\* a list or an integer under the record keys)
CleanRaises(results_) ==
    \/ results_.t \notin {"list", "str", "dict"}
    \/ results_.t = "list" /\ \E i \in DOMAIN results_.v : results_.v[i].t \in {"int", "null"}

\* the cleaning loop run over every field that holds a string
CleanRecordEveryField(r) ==
    JDict([field \in DOMAIN r.v |->
        IF r.v[field].t = "str" THEN clean_html(r.v[field]) ELSE r.v[field]])

\* one record after the cleaning loop
CleanRecord(r) ==
    JDict([field \in DOMAIN r.v |->
        IF field \in CleanFields /\ r.v[field].t = "str"
        THEN clean_html(r.v[field])
        ELSE r.v[field]])

\* the extension that leaves out the records the collection already holds
ExtendDeduplicating(all_results_, recs) ==
    LET New(r) == r \notin Range(all_results_)
    IN  all_results_ \o SelectSeq([i \in DOMAIN recs |-> CleanRecord(recs[i])], New)

\* all_results after all_results.extend(results), results being cleaned
Extend(all_results_, recs) ==
    all_results_ \o [i \in DOMAIN recs |-> CleanRecord(recs[i])]

\* the handler that lets the accumulated records go
ExceptBreakDropping(all_results_) == <<>>

\* all_results after `except Exception: break`
ExceptBreak(all_results_) == all_results_

\* the increment that skips a page
NextPageSkipping(page_) == page_ + 2

\* `page += 1`
NextPage(page_) == page_ + 1

\* `page <= total_pages` raises TypeError unless total_pages is a number
ConditionRaises(total_pages_) == total_pages_.t # "int"

Return(c) ==
    /\ pc' = [pc EXCEPT ![c] = "fetched"]
    /\ UNCHANGED <<endpoint, query, keywords, outcome, cleanVars>>

\* one iteration of the while loop: the request for `page` and all that
\* follows it up to the next evaluation of the condition, the upstream
\* answering with one of `answers`
FetchPageFrom(c, answers) ==
    /\ pc[c] = "fetching"
    /\ ~ConditionRaises(total_pages[c])
    /\ page[c] <= total_pages[c].v
    /\ \E resp \in answers :
        /\ response' = [response EXCEPT ![c] = resp]
        /\ requested' = [requested EXCEPT ![c] = Append(@, page[c])]
        /\ IF RaisesBeforeShape(resp)
           THEN /\ all_results' = [all_results EXCEPT ![c] = ExceptBreak(@)]
                /\ UNCHANGED <<page, total_pages, results, fetched_pages, fetch_exc>>
                /\ Return(c)
           ELSE LET res == ExtractResults(resp.body)
                    count == ExtractTotalPages(resp.body, total_pages[c])
                IN  /\ results' = [results EXCEPT ![c] = res]
                    /\ total_pages' = [total_pages EXCEPT ![c] = count]
                    /\ IF NoResults(res)
                       THEN /\ UNCHANGED <<page, all_results, fetched_pages, fetch_exc>>
                            /\ Return(c)
                       ELSE IF CleanRaises(res)
                       THEN /\ all_results' = [all_results EXCEPT ![c] = ExceptBreak(@)]
                            /\ UNCHANGED <<page, fetched_pages, fetch_exc>>
                            /\ Return(c)
                       ELSE /\ all_results' = [all_results EXCEPT ![c] = Extend(@, res.v)]
                            /\ fetched_pages' = [fetched_pages EXCEPT ![c] = Append(@, res.v)]
                            /\ page' = [page EXCEPT ![c] = NextPage(@)]
                            /\ UNCHANGED <<pc, fetch_exc, endpoint, query, keywords, outcome,
                                           cleanVars>>

FetchPage(c) == FetchPageFrom(c, Responses)

\* the condition of the while loop is false: return all_results
LoopExit(c) ==
    /\ pc[c] = "fetching"
    /\ ~ConditionRaises(total_pages[c])
    /\ page[c] > total_pages[c].v
    /\ UNCHANGED <<page, total_pages, all_results, results, response, requested,
                   fetched_pages, fetch_exc>>
    /\ Return(c)

\* the condition of the while loop raises, outside the try block
LoopConditionError(c) ==
    /\ pc[c] = "fetching"
    /\ ConditionRaises(total_pages[c])
    /\ fetch_exc' = [fetch_exc EXCEPT ![c] = "TypeError"]
    /\ UNCHANGED <<page, total_pages, all_results, results, response, requested,
                   fetched_pages>>
    /\ Return(c)

----------------------------------------------------------------------------
(* The handlers *)

ExampleQuery ==
    <<"S", "h", "o", "w", " ", "m", "e", " ", "a", "l", "l", " ", "t", "h", "e", " ",
      "R", "i", "s", "k", " ", "i", "s", "s", "u", "e", "s", " ", "a", "n", "d", " ",
      "m", "i", "t", "i", "g", "a", "n", "t", "s", " ", "f", "o", "r", " ",
      "M", "a", "r", "k", "e", "t", " ", "R", "i", "s", "k">>

\* the queries a caller sends: the example of lesson_bot, one plain word, one
\* made of stopwords only, one made of short words only
Queries == {
    ExampleQuery,
    <<"e", "n", "e", "r", "g", "y">>,
    <<"S", "h", "o", "w", " ", "m", "e", " ", "t", "h", "e", " ", "R", "I", "S", "K">>,
    <<"I", "s", " ", "i", "t", " ", "o", "k", "?">> }

RECURSIVE IntStr(_)
\* str(n) of a non-negative integer
IntStr(n) == IF n < 10 THEN <<Digits[n + 1]>> ELSE IntStr(n \div 10) \o <<Digits[(n % 10) + 1]>>

\* str(x) of a string, an integer or None
PyStr(x) ==
    CASE x.t = "str"  -> x.v
      [] x.t = "int"  -> IntStr(x.v)
      [] x.t = "null" -> <<"N", "o", "n", "e">>

\* r.get("consultantTransaction", {})
Transaction(r) == Get(r.v, "consultantTransaction", JDict(<<>>))

\* the projection that indexes r["consultantTransaction"] and so raises
\* KeyError when the key is absent
ProjectionRaisesOnMissing(r) ==
    \/ r.t # "dict"
    \/ "consultantTransaction" \notin DOMAIN r.v
    \/ r.v["consultantTransaction"].t # "dict"

\* building the projection raises: the record or its consultantTransaction
\* has no method get
ProjectionRaises(r) == r.t # "dict" \/ Transaction(r).t # "dict"

\* the strings handed to " ".join
ProjectionParts(r) == <<
    PyStr(Get(r.v, "title", JStr(<<>>))),
    PyStr(Get(r.v, "details", JStr(<<>>))),
    PyStr(Get(r.v, "lessonLearnt", JStr(<<>>))),
    PyStr(Get(r.v, "typeDescription", JStr(<<>>))),
    PyStr(Get(Transaction(r).v, "transactionName", JStr(<<>>))),
    PyStr(Get(Transaction(r).v, "portfolioName", JStr(<<>>))),
    PyStr(Get(Transaction(r).v, "sector", JStr(<<>>))) >>

RECURSIVE Join(_)
\* " ".join(parts)
Join(parts) ==
    IF Len(parts) = 0 THEN <<>>
    ELSE IF Len(parts) = 1 THEN parts[1]
    ELSE parts[1] \o <<" ">> \o Join(Tail(parts))

combined_text(r) == lower(Join(ProjectionParts(r)))

\* the ALL policy: every keyword must occur
KeywordMatchAll(keywords_, text) ==
    \A i \in DOMAIN keywords_ : IsSubstring(keywords_[i], text)

\* any(k in combined_text for k in keywords)
KeywordMatch(keywords_, text) ==
    \E i \in DOMAIN keywords_ : IsSubstring(keywords_[i], text)

\* the list of the matching records, the last one found first
MatchesNewestFirst(records, keywords_) ==
    LET Hit(r) == KeywordMatch(keywords_, combined_text(r))
        found == SelectSeq(records, Hit)
    IN  [i \in DOMAIN found |-> found[Len(found) + 1 - i]]

\* the list `matches` after the loop over the records
Matches(records, keywords_) ==
    LET Hit(r) == KeywordMatch(keywords_, combined_text(r))
    IN  SelectSeq(records, Hit)

\* the check that lets every keyword list through
NoKeywordsNever(keywords_) == FALSE

\* `if not keywords`
NoKeywords(keywords_) == Len(keywords_) = 0

\* the status FastAPI answers with when an exception leaves a handler
ExcStatus(exc) == IF exc = "HTTPException_401" THEN 401 ELSE 500

Failure(status) == [status |-> status, total |-> 0, results |-> <<>>]

Payload(total, records) == [status |-> 200, total |-> total, results |-> records]

\* the call that starts from a list shared with another call in progress
\* instead of a fresh one
CallFetchShared(c) ==
    /\ pc' = [pc EXCEPT ![c] = "fetching"]
    /\ page' = [page EXCEPT ![c] = 1]
    /\ total_pages' = [total_pages EXCEPT ![c] = JInt(1)]
    /\ all_results' = [all_results EXCEPT ![c] =
          IF DOMAIN pc = {c} THEN <<>>
          ELSE all_results[CHOOSE o \in DOMAIN pc : o # c]]

\* the locals of fetch_all_records before the loop
CallFetch(c) ==
    /\ pc' = [pc EXCEPT ![c] = "fetching"]
    /\ page' = [page EXCEPT ![c] = 1]
    /\ total_pages' = [total_pages EXCEPT ![c] = JInt(1)]
    /\ all_results' = [all_results EXCEPT ![c] = <<>>]

\* GET /records up to its call of fetch_all_records
get_records(c) ==
    /\ pc[c] = "idle"
    /\ endpoint' = [endpoint EXCEPT ![c] = "get_records"]
    /\ CallFetch(c)
    /\ UNCHANGED <<query, keywords, results, response, requested, fetched_pages,
                   fetch_exc, outcome, cleanVars>>

\* the test that never finds the collection empty
NoRecordsNever(records) == FALSE

\* `if not records`
NoRecords(records) == Len(records) = 0

\* GET /records from the return of fetch_all_records on
get_records_respond(c) ==
    /\ pc[c] = "fetched"
    /\ endpoint[c] = "get_records"
    /\ pc' = [pc EXCEPT ![c] = "done"]
    /\ outcome' = [outcome EXCEPT ![c] =
          IF fetch_exc[c] # "none" THEN Failure(ExcStatus(fetch_exc[c]))
          ELSE IF NoRecords(all_results[c]) THEN Failure(404)
          ELSE Payload(Len(all_results[c]), all_results[c])]
    /\ UNCHANGED <<endpoint, query, keywords, page, total_pages, all_results, results,
                   response, requested, fetched_pages, fetch_exc, cleanVars>>

\* the search handler, entered as `name`, up to its call of fetch_all_records
SearchCall(c, name, q) ==
    /\ pc[c] = "idle"
    /\ endpoint' = [endpoint EXCEPT ![c] = name]
    /\ query' = [query EXCEPT ![c] = q]
    /\ keywords' = [keywords EXCEPT ![c] = preprocess_query(q)]
    /\ IF NoKeywords(preprocess_query(q))
       THEN /\ pc' = [pc EXCEPT ![c] = "done"]
            /\ outcome' = [outcome EXCEPT ![c] = Failure(400)]
            /\ UNCHANGED <<page, total_pages, all_results>>
       ELSE /\ CallFetch(c)
            /\ UNCHANGED outcome
    /\ UNCHANGED <<results, response, requested, fetched_pages, fetch_exc, cleanVars>>

\* POST /search
search_records_body(c) == \E q \in Queries : SearchCall(c, "search_records_body", q)

\* GET /search?query=q, which builds a SearchRequest and calls search_records_body
search_records_query(c) == \E q \in Queries : SearchCall(c, "search_records_query", q)

\* the search handler from the return of fetch_all_records on
search_respond(c) ==
    /\ pc[c] = "fetched"
    /\ endpoint[c] \in {"search_records_body", "search_records_query"}
    /\ pc' = [pc EXCEPT ![c] = "done"]
    /\ outcome' = [outcome EXCEPT ![c] =
          IF fetch_exc[c] # "none" THEN Failure(ExcStatus(fetch_exc[c]))
          ELSE IF \E i \in DOMAIN all_results[c] : ProjectionRaises(all_results[c][i])
          THEN Failure(ExcStatus("AttributeError"))
          ELSE LET matches == Matches(all_results[c], keywords[c])
               IN  Payload(Len(matches), matches)]
    /\ UNCHANGED <<endpoint, query, keywords, page, total_pages, all_results, results,
                   response, requested, fetched_pages, fetch_exc, cleanVars>>

----------------------------------------------------------------------------
(* Specification of the request handling *)

InitCalls(calls) ==
    /\ pc = [c \in calls |-> "idle"]
    /\ endpoint = [c \in calls |-> "none"]
    /\ query = [c \in calls |-> <<>>]
    /\ keywords = [c \in calls |-> <<>>]
    /\ page = [c \in calls |-> 1]
    /\ total_pages = [c \in calls |-> JInt(1)]
    /\ all_results = [c \in calls |-> <<>>]
    /\ results = [c \in calls |-> JList(<<>>)]
    /\ response = [c \in calls |-> NoResponse]
    /\ requested = [c \in calls |-> <<>>]
    /\ fetched_pages = [c \in calls |-> <<>>]
    /\ fetch_exc = [c \in calls |-> "none"]
    /\ outcome = [c \in calls |-> Failure(0)]

Init ==
    /\ InitCalls({1})
    /\ raw_text = JNull
    /\ once = JNull
    /\ twice = JNull
    /\ clean_pc = "off"

Next ==
    \E c \in DOMAIN pc :
        \/ get_records(c)
        \/ search_records_body(c)
        \/ search_records_query(c)
        \/ FetchPage(c)
        \/ LoopExit(c)
        \/ LoopConditionError(c)
        \/ get_records_respond(c)
        \/ search_respond(c)

Spec == Init /\ [][Next]_vars

----------------------------------------------------------------------------
(* Specification of clean_html applied to bounded inputs *)

Alphabet == {"<", ">", "a", " ", "\n"}

Texts == UNION {[1..n -> Alphabet] : n \in 0..MaxLen}

CleanInputs == {JStr(s) : s \in Texts} \cup {JNull, JInt(3), JList(<<>>)}

InitClean ==
    /\ InitCalls({})
    /\ raw_text \in CleanInputs
    /\ once = JNull
    /\ twice = JNull
    /\ clean_pc = "input"

CleanOnce ==
    /\ clean_pc = "input"
    /\ once' = clean_html(raw_text)
    /\ clean_pc' = "once"
    /\ UNCHANGED <<raw_text, twice, callVars>>

CleanTwice ==
    /\ clean_pc = "once"
    /\ twice' = clean_html(once)
    /\ clean_pc' = "twice"
    /\ UNCHANGED <<raw_text, once, callVars>>

NextClean == CleanOnce \/ CleanTwice

SpecClean == InitClean /\ [][NextClean]_vars

----------------------------------------------------------------------------
(* Specification of preprocess_query applied to bounded queries: POST /search *)
(* up to the validation of the keywords                                       *)

\* letters that spell the stopword "all", in both cases, and a separator
QueryAlphabet == {"a", "l", "L", "-"}

BoundedQueries == UNION {[1..n -> QueryAlphabet] : n \in 0..MaxQueryLen}

SearchBounded(c) ==
    /\ pc[c] = "idle"
    /\ \E q \in BoundedQueries : SearchCall(c, "search_records_body", q)

NextTokens == \E c \in DOMAIN pc : SearchBounded(c)

SpecTokens == Init /\ [][NextTokens]_vars

----------------------------------------------------------------------------
(* Specification of two concurrent requests, their page fetches interleaved *)

\* the answers of the upstream to the two requests: two pages with records,
\* an empty page, a page with a null page count, a timeout and a 401
ConcurrentResponses ==
    {[status |-> 200, fault |-> "none", body |-> b] : b \in {
        DataKeyed("result", JList(TwoRecords), "totalPages", JInt(2)),
        DataKeyed("result", JList(<<rHtml, rBare>>), "totalPages", Absent),
        DataKeyed("result", JList(<<>>), "totalPages", JInt(2)),
        TopKeyed("results", JList(TwoRecords), JNull)}}
    \cup {[status |-> 0, fault |-> "timeout", body |-> JNull],
          [status |-> 401, fault |-> "none", body |-> JNull]}

FetchPageConcurrent(c) == FetchPageFrom(c, ConcurrentResponses)

InitConcurrent ==
    /\ InitCalls({1, 2})
    /\ raw_text = JNull
    /\ once = JNull
    /\ twice = JNull
    /\ clean_pc = "off"

NextConcurrent ==
    \E c \in DOMAIN pc :
        \/ get_records(c)
        \/ search_records_body(c)
        \/ search_records_query(c)
        \/ FetchPageConcurrent(c)
        \/ LoopExit(c)
        \/ LoopConditionError(c)
        \/ get_records_respond(c)
        \/ search_respond(c)

SpecConcurrent == InitConcurrent /\ [][NextConcurrent]_vars

----------------------------------------------------------------------------
(* Properties *)

SearchEndpoints == {"search_records_body", "search_records_query"}

\* fetch_all_records has been left, by return or by an exception
Left(c) == pc[c] \in {"fetched", "done"}

RECURSIVE Flatten(_)
\* the concatenation of a sequence of sequences
Flatten(lists) == IF Len(lists) = 0 THEN <<>> ELSE Head(lists) \o Flatten(Tail(lists))

\* the records of the pages processed to completion, each one cleaned, in
\* page order
CleanedPages(c) ==
    Flatten([i \in DOMAIN fetched_pages[c] |->
        [j \in DOMAIN fetched_pages[c][i] |-> CleanRecord(fetched_pages[c][i][j])]])

\* the last page request failed with a fault that is not an authorization
\* rejection: timeout, transport error, non-2xx status, undecodable body
NonAuthFault(resp) ==
    \/ resp.fault \in {"timeout", "connection", "undecodable"}
    \/ resp.status >= 400 /\ resp.status # 401

\* the last page request was answered with a decoded mapping
Decoded(c) ==
    /\ Len(requested[c]) >= 1
    /\ response[c].status = 200
    /\ response[c].fault = "none"
    /\ response[c].body.t = "dict"

\* C1: when the upstream answers a page request with 401, the request ends
\* in an authorization failure (401), not in 'not found' or a search result.
C1_UnauthorizedPropagates ==
    \A c \in DOMAIN pc :
        (pc[c] = "done" /\ response[c].status = 401) => outcome[c].status = 401

\* C2: when the request for page k fails with a non-authorization fault,
\* fetch_all_records returns without error exactly the (cleaned) records of
\* pages 1..k-1.
C2_PartialOnFault ==
    \A c \in DOMAIN pc :
        (Len(requested[c]) >= 1 /\ NonAuthFault(response[c])) =>
            /\ Left(c)
            /\ fetch_exc[c] = "none"
            /\ requested[c] = [i \in 1..Len(requested[c]) |-> i]
            /\ Len(fetched_pages[c]) = Len(requested[c]) - 1
            /\ all_results[c] = CleanedPages(c)

\* C2 witness: page 1 gave 2 records with totalPages = 2, page 2 timed out,
\* and the 2 records of page 1 were returned.
C2_Witness ==
    \E c \in DOMAIN pc :
        /\ Left(c)
        /\ response[c].fault = "timeout"
        /\ requested[c] = <<1, 2>>
        /\ total_pages[c] = JInt(2)
        /\ fetched_pages[c] = <<TwoRecords>>
        /\ all_results[c] = TwoRecords
        /\ fetch_exc[c] = "none"

\* C3: the number of loop iterations (page requests) of a call is at most the
\* totalPages the upstream reported, i.e. the value of total_pages in force
\* when the call ends.
C3_IterationsWithinTotalPages ==
    \A c \in DOMAIN pc :
        (Left(c) /\ total_pages[c].t = "int") => Len(requested[c]) <= total_pages[c].v

\* C4: when a successfully fetched page yields zero records, the loop stops
\* at that page without error and the records of the earlier pages are
\* returned, whatever total_pages says.
C4_StopsOnEmptyPage ==
    \A c \in DOMAIN pc :
        (Decoded(c) /\ ~Truthy(results[c])) =>
            /\ Left(c)
            /\ fetch_exc[c] = "none"
            /\ page[c] = Len(requested[c])
            /\ Len(fetched_pages[c]) = Len(requested[c]) - 1
            /\ all_results[c] = CleanedPages(c)

\* C4 witness: page 2 came back empty while total_pages said that page 3
\* remained, and the records of page 1 were returned.
C4_Witness ==
    \E c \in DOMAIN pc :
        /\ Left(c)
        /\ Decoded(c)
        /\ ~Truthy(results[c])
        /\ requested[c] = <<1, 2>>
        /\ total_pages[c].t = "int"
        /\ total_pages[c].v > page[c]
        /\ Len(all_results[c]) > 0

\* C5: for each of the five known response shapes (flat list, data list,
\* data.result, data.results, top-level items) the shape interpretation
\* recovers exactly that record list and, when present, the page count.
C5_KnownShapesRecovered ==
    \A c \in DOMAIN pc :
        (Len(requested[c]) >= 1 /\ response[c].status = 200 /\ response[c].fault = "none") =>
            LET body == response[c].body
                HasList(d, key) == key \in DOMAIN d /\ d[key].t = "list"
                HasCount(d, key) == key \in DOMAIN d /\ d[key].t = "int" /\ d[key].v >= 1
            IN  /\ body.t = "list" => results[c] = body
                /\ (body.t = "dict" /\ HasList(body.v, "data")) => results[c] = body.v["data"]
                /\ (body.t = "dict" /\ "data" \in DOMAIN body.v /\ body.v["data"].t = "dict") =>
                       LET inner == body.v["data"].v
                       IN  /\ HasList(inner, "result") => results[c] = inner["result"]
                           /\ HasList(inner, "results") => results[c] = inner["results"]
                           /\ HasCount(inner, "totalPages") =>
                                  total_pages[c] = inner["totalPages"]
                /\ (body.t = "dict" /\ "data" \notin DOMAIN body.v /\ HasList(body.v, "items")) =>
                       /\ results[c] = body.v["items"]
                       /\ HasCount(body.v, "totalPages") =>
                              total_pages[c] = body.v["totalPages"]

\* C6: the example query tokenizes to exactly ["market"].
C6_ExampleQueryKeywords ==
    \A c \in DOMAIN pc :
        (endpoint[c] \in SearchEndpoints /\ query[c] = ExampleQuery) =>
            keywords[c] = << <<"m", "a", "r", "k", "e", "t">> >>

\* keyword k occurs in the lowercased text of one of the seven projected
\* fields of record r
OccursInField(k, r) ==
    \E i \in DOMAIN ProjectionParts(r) : IsSubstring(k, lower(ProjectionParts(r)[i]))

\* C7: under the substring ANY policy of /search, a record of the fetched
\* collection is in the results if and only if at least one keyword is a
\* substring of its lowercase projection.
C7_SubstringAny ==
    \A c \in DOMAIN pc :
        (pc[c] = "done" /\ endpoint[c] \in SearchEndpoints /\ outcome[c].status = 200) =>
            LET Relevant(r) == \E i \in DOMAIN keywords[c] : OccursInField(keywords[c][i], r)
            IN  /\ outcome[c].results = SelectSeq(all_results[c], Relevant)
                /\ outcome[c].total = Len(outcome[c].results)

\* C7 witness: records "Energy project A" and "Water project B" searched with
\* the keyword "energy" gave exactly the first.
C7_Witness ==
    \E c \in DOMAIN pc :
        /\ pc[c] = "done"
        /\ endpoint[c] \in SearchEndpoints
        /\ keywords[c] = << <<"e", "n", "e", "r", "g", "y">> >>
        /\ all_results[c] = TwoRecords
        /\ outcome[c] = Payload(1, <<rEnergy>>)

\* C8: clean_html is idempotent on every string, and returns every
\* non-string input unchanged.
C8_CleanIdempotent ==
    /\ clean_pc = "twice" => twice = once
    /\ (clean_pc \in {"once", "twice"} /\ raw_text.t # "str") => once = raw_text

\* C8 witness: a text that cleaning changed and that still holds an
\* unbalanced bracket has been cleaned twice.
C8_Witness ==
    /\ clean_pc = "twice"
    /\ raw_text.t = "str"
    /\ once # raw_text
    /\ "<" \in Range(once.v)

\* C9: unless the upstream rejects the authorization, fetch_all_records
\* returns a collection and never raises.
C9_FetchNeverRaises ==
    \A c \in DOMAIN pc : response[c].status # 401 => fetch_exc[c] = "none"

\* C10: a search whose query tokenizes to an empty keyword list ends in a
\* bad-request (400) outcome and never in a result payload.
C10_EmptyKeywordsBadRequest ==
    \A c \in DOMAIN pc :
        (endpoint[c] \in SearchEndpoints /\ Len(keywords[c]) = 0) =>
            /\ pc[c] = "done"
            /\ outcome[c] = Failure(400)
            /\ requested[c] = <<>>

\* C10 witness: GET /search with a query of stopwords only was answered 400.
C10_Witness ==
    \E c \in DOMAIN pc :
        /\ endpoint[c] = "search_records_query"
        /\ query[c] = <<"S", "h", "o", "w", " ", "m", "e", " ", "t", "h", "e", " ", "R", "I", "S", "K">>
        /\ keywords[c] = <<>>
        /\ outcome[c].status = 400

\* C11: GET /records answers 'not found' (404) exactly when the collection
\* fetch_all_records returned is empty; otherwise it answers with the whole
\* collection and total equal to the number of its records.
C11_NotFoundIffEmpty ==
    \A c \in DOMAIN pc :
        (pc[c] = "done" /\ endpoint[c] = "get_records" /\ fetch_exc[c] = "none") =>
            /\ outcome[c].status = 404 <=> Len(all_results[c]) = 0
            /\ Len(all_results[c]) > 0 =>
                   /\ outcome[c].status = 200
                   /\ outcome[c].results = all_results[c]
                   /\ outcome[c].total = Len(all_results[c])

\* C11 witness: GET /records was answered 404 after an empty first page.
C11_Witness ==
    \E c \in DOMAIN pc :
        /\ pc[c] = "done"
        /\ endpoint[c] = "get_records"
        /\ Decoded(c)
        /\ all_results[c] = <<>>
        /\ outcome[c].status = 404

\* C12: after each successful page response, the total_pages adopted is
\* never lower than the page number just fetched.
C12_TotalPagesNotBelowPage ==
    \A c \in DOMAIN pc :
        (Decoded(c) /\ total_pages[c].t = "int") =>
            total_pages[c].v >= requested[c][Len(requested[c])]

\* the state of call c is one that the loop of fetch_all_records allows:
\* pages 1..n were requested in this order, and while the loop runs every
\* requested page has been processed and the next one is page n+1; a
\* terminal answer (401, any other failure, no records) has stopped the loop
Sequential(c) ==
    LET n == Len(requested[c])
    IN  /\ requested[c] = [i \in 1..n |-> i]
        /\ pc[c] = "fetching" => (page[c] = n + 1 /\ Len(fetched_pages[c]) = n)
        /\ (n >= 1 /\ (response[c].status = 401 \/ NonAuthFault(response[c])
                        \/ RaisesBeforeShape(response[c]) \/ ~Truthy(results[c])))
               => Left(c)

\* C13: within one call the page requests are issued strictly sequentially
\* for pages 1, 2, ..., k with no gap and no repeat, page N+1 only after page
\* N was processed, and none is issued after a terminal condition.
C13_SequentialRequests ==
    /\ [](\A c \in DOMAIN pc : Sequential(c))
    /\ [][\A c \in DOMAIN pc : Left(c) => requested'[c] = requested[c]]_vars

\* C13 witness: pages 1, 2 and 3 were requested and the third answer, a 401,
\* stopped the loop.
C13_Witness ==
    \E c \in DOMAIN pc :
        /\ requested[c] = <<1, 2, 3>>
        /\ response[c].status = 401
        /\ Len(fetched_pages[c]) = 2
        /\ Left(c)

RECURSIVE SumLen(_)
\* the sum of the lengths of a sequence of sequences
SumLen(lists) == IF Len(lists) = 0 THEN 0 ELSE Len(Head(lists)) + SumLen(Tail(lists))

\* C14: the collection of fetch_all_records is the concatenation, in page
\* order and in each page's record order, of the cleaned records of every
\* page processed to completion; nothing is dropped, reordered or
\* deduplicated, and its length is the sum of the page sizes.
C14_ConcatenationOfPages ==
    \A c \in DOMAIN pc :
        /\ all_results[c] = CleanedPages(c)
        /\ Len(all_results[c]) = SumLen(fetched_pages[c])

\* C14 witness: the same two records came on page 1 and on page 2 and the
\* returned collection holds them twice.
C14_Witness ==
    \E c \in DOMAIN pc :
        /\ Left(c)
        /\ fetch_exc[c] = "none"
        /\ fetched_pages[c] = <<TwoRecords, TwoRecords>>
        /\ all_results[c] = <<rEnergy, rWater, rEnergy, rWater>>

\* the fields the cleaning loop is meant to touch
DesignatedFields == {"title", "details", "lessonLearnt", "typeDescription"}

\* record `out` is record `raw` with the designated string fields replaced
\* by their clean_html and nothing else changed
OnlyDesignatedCleaned(raw, out) ==
    /\ out.t = "dict"
    /\ DOMAIN out.v = DOMAIN raw.v
    /\ \A field \in DOMAIN raw.v :
           out.v[field] = IF field \in DesignatedFields /\ raw.v[field].t = "str"
                          THEN clean_html(raw.v[field])
                          ELSE raw.v[field]

\* C15: sanitization changes only the four designated text fields, and only
\* when they hold strings; every other field, the set of field names and
\* non-string values of the designated fields are left unchanged.
C15_OnlyDesignatedFieldsCleaned ==
    \A c \in DOMAIN pc :
        LET raw == Flatten(fetched_pages[c])
        IN  /\ Len(all_results[c]) = Len(raw)
            /\ \A k \in DOMAIN raw : OnlyDesignatedCleaned(raw[k], all_results[c][k])

\* C15 witness: a record with markup in designated fields, in another
\* top-level field and in a nested field was cleaned: the title changed, the
\* other fields did not.
C15_Witness ==
    \E c \in DOMAIN pc :
        /\ Left(c)
        /\ fetched_pages[c] = << <<rHtml, rBare>> >>
        /\ all_results[c][1].v["title"] = JStr(<<"M", "a", "r", "k", "e", "t", " ", "r", "i", "s", "k">>)
        /\ all_results[c][1].v["reference"] = rHtml.v["reference"]
        /\ all_results[c][1].v["details"] = JInt(12)
        /\ all_results[c][1].v["consultantTransaction"] = rHtml.v["consultantTransaction"]

\* positions i..j of text s are a maximal run of word characters
IsRun(s, i, j) ==
    /\ i <= j
    /\ \A k \in i..j : s[k] \in WordChars
    /\ i = 1 \/ s[i - 1] \notin WordChars
    /\ j = Len(s) \/ s[j + 1] \notin WordChars

\* the runs of s that are no stopword and have at least 3 characters
KeptRuns(s) ==
    {r \in (1..Len(s)) \X (1..Len(s)) :
        /\ IsRun(s, r[1], r[2])
        /\ r[2] - r[1] + 1 >= 3
        /\ \A i \in DOMAIN stopwords : SubSeq(s, r[1], r[2]) # stopwords[i]}

\* C16: preprocess_query returns, in their order of occurrence and keeping
\* repeats, exactly the word-character runs of the lowercased query that are
\* not stopwords and have at least 3 characters.
C16_KeywordsAreKeptRuns ==
    \A c \in DOMAIN pc :
        endpoint[c] \in SearchEndpoints =>
            LET s == lower(query[c])
                kept == KeptRuns(s)
            IN  /\ Len(keywords[c]) = Cardinality(kept)
                /\ \A r \in kept :
                       keywords[c][Cardinality({b \in kept : b[1] < r[1]}) + 1]
                           = SubSeq(s, r[1], r[2])
                /\ \A n \in DOMAIN keywords[c] :
                       /\ Len(keywords[c][n]) >= 3
                       /\ keywords[c][n] = lower(keywords[c][n])

\* C16 witness: a query with the same word in two cases gave that word
\* twice, in lower case.
C16_Witness ==
    \E c \in DOMAIN pc :
        /\ query[c] = <<"L", "a", "L", "-", "l", "a", "l">>
        /\ keywords[c] = << <<"l", "a", "l">>, <<"l", "a", "l">> >>

\* the matching fields of a record, and those of its consultantTransaction
TopFields == {"title", "details", "lessonLearnt", "typeDescription"}

NestedFields == {"transactionName", "portfolioName", "sector"}

\* every matching field of record r is absent or readable: r is a mapping
\* and its consultantTransaction, when present, is a mapping
FieldsAbsentOrReadable(r) ==
    /\ r.t = "dict"
    /\ "consultantTransaction" \in DOMAIN r.v => r.v["consultantTransaction"].t = "dict"

\* keyword k occurs in a matching field that record r does have
OccursInPresentField(k, r) ==
    \/ \E f \in TopFields \cap DOMAIN r.v : IsSubstring(k, lower(PyStr(r.v[f])))
    \/ /\ "consultantTransaction" \in DOMAIN r.v
       /\ \E f \in NestedFields \cap DOMAIN r.v["consultantTransaction"].v :
              IsSubstring(k, lower(PyStr(r.v["consultantTransaction"].v[f])))

\* C17: matching never fails on a record that lacks matching fields: the
\* search completes without error, and an absent field makes no keyword
\* match, so a record is matched only through the fields it has.
C17_AbsentFieldsAreEmpty ==
    \A c \in DOMAIN pc :
        (/\ pc[c] = "done"
         /\ endpoint[c] \in SearchEndpoints
         /\ Len(requested[c]) >= 1
         /\ fetch_exc[c] = "none"
         /\ \A i \in DOMAIN all_results[c] : FieldsAbsentOrReadable(all_results[c][i])) =>
            LET Hit(r) == \E i \in DOMAIN keywords[c] : OccursInPresentField(keywords[c][i], r)
            IN  /\ outcome[c].status = 200
                /\ outcome[c].results = SelectSeq(all_results[c], Hit)

\* C17 witness: a search over records without consultantTransaction, one of
\* them without any matching field, completed and matched another record.
C17_Witness ==
    \E c \in DOMAIN pc :
        /\ pc[c] = "done"
        /\ endpoint[c] \in SearchEndpoints
        /\ outcome[c].status = 200
        /\ \E i \in DOMAIN all_results[c] : all_results[c][i] = rBare
        /\ \E i \in DOMAIN all_results[c] : all_results[c][i] = rWater
        /\ \A i \in DOMAIN outcome[c].results : outcome[c].results[i] \notin {rBare, rWater}
        /\ Len(outcome[c].results) > 0

\* everything call c holds
CallState(c) ==
    <<pc[c], endpoint[c], query[c], keywords[c], page[c], total_pages[c], all_results[c],
      results[c], response[c], requested[c], fetched_pages[c], fetch_exc[c], outcome[c]>>

\* the page counter, total_pages and collection of call c are those its own
\* answers give: the pages it processed, cleaned and concatenated, the page
\* after them, and the page count of its last decoded answer
OwnAnswersOnly(c) ==
    /\ all_results[c] = CleanedPages(c)
    /\ page[c] = Len(fetched_pages[c]) + 1
    /\ Len(fetched_pages[c]) <= Len(requested[c])
    /\ Decoded(c) => total_pages[c] = ExtractTotalPages(response[c].body, total_pages[c])

\* C18: concurrent calls of fetch_all_records do not interfere: whatever the
\* interleaving of their page fetches, the state of each call follows from
\* its own upstream answers, and a step of one call leaves the other alone.
C18_NoInterference ==
    /\ [](\A c \in DOMAIN pc : OwnAnswersOnly(c))
    /\ [][\A c1, c2 \in DOMAIN pc :
            (c1 # c2 /\ CallState(c1)' # CallState(c1)) => CallState(c2)' = CallState(c2)]_vars

\* C18 witness: both calls are in their loop, each has processed its first
\* page, and their collections differ.
C18_Witness ==
    /\ DOMAIN pc = {1, 2}
    /\ pc[1] = "fetching" /\ pc[2] = "fetching"
    /\ page[1] = 2 /\ page[2] = 2
    /\ all_results[1] = TwoRecords
    /\ all_results[2] # TwoRecords

\* C19: /search validates the query before any aggregation: a search with
\* an empty keyword list never enters fetch_all_records and requests no
\* page, and every page request of a search is made with the non-empty
\* keyword list of its query already computed.
C19_ValidatedBeforeAggregation ==
    /\ [](\A c \in DOMAIN pc :
            (endpoint[c] \in SearchEndpoints /\ (requested[c] # <<>> \/ pc[c] \in {"fetching", "fetched"}))
                => (Len(keywords[c]) > 0 /\ keywords[c] = preprocess_query(query[c])))
    /\ [][\A c \in DOMAIN pc :
            (endpoint'[c] \in SearchEndpoints /\ requested'[c] # requested[c])
                => (Len(keywords[c]) > 0 /\ keywords'[c] = keywords[c])]_vars

\* C19 witness: a search whose query left the keyword market has requested
\* the pages 1 and 2.
C19_Witness ==
    \E c \in DOMAIN pc :
        /\ endpoint[c] = "search_records_body"
        /\ query[c] = ExampleQuery
        /\ <<"m", "a", "r", "k", "e", "t">> \in Range(keywords[c])
        /\ requested[c] = <<1, 2>>

RECURSIVE IsSubsequence(_, _)
\* a is b with some of its elements left out, the others in the order of b
IsSubsequence(a, b) ==
    IF Len(a) = 0 THEN TRUE
    ELSE IF Len(b) = 0 THEN FALSE
    ELSE IF Head(a) = Head(b) THEN IsSubsequence(Tail(a), Tail(b))
    ELSE IsSubsequence(a, Tail(b))

\* the search of call c went through the loop over the records
Searched(c) ==
    /\ pc[c] = "done"
    /\ endpoint[c] \in SearchEndpoints
    /\ Len(keywords[c]) > 0
    /\ fetch_exc[c] = "none"
    /\ \A i \in DOMAIN all_results[c] : ~ProjectionRaises(all_results[c][i])

\* C20: the results of /search are the records of the collection returned by
\* fetch_all_records with some left out, unmodified and in collection order,
\* total_matches is their number, and a search that no record matches is
\* answered with a normal payload of no results and total_matches 0.
C20_ResultsSubsequence ==
    \A c \in DOMAIN pc :
        Searched(c) =>
            /\ outcome[c].status = 200
            /\ IsSubsequence(outcome[c].results, all_results[c])
            /\ outcome[c].total = Len(outcome[c].results)
            /\ (\A i \in DOMAIN all_results[c] :
                    ~KeywordMatch(keywords[c], combined_text(all_results[c][i])))
                => outcome[c] = Payload(0, <<>>)

\* C20 witness: of a collection of four records the search for energy
\* returned the first and the third.
C20_Witness ==
    \E c \in DOMAIN pc :
        /\ Searched(c)
        /\ Len(all_results[c]) = 4
        /\ outcome[c].total = 2
        /\ outcome[c].results = <<all_results[c][1], all_results[c][3]>>
        /\ all_results[c][1] # all_results[c][3]

====
